---- MODULE Spec2Model ----
(***************************************************************************)
(* Model of amazon_advertising_api_v3/advertising_api.py: the session      *)
(* (AdvertisingApiV3), the token refresh (do_refresh_token), the request   *)
(* dispatcher (_operation), the report/snapshot orchestration (get_report, *)
(* get_snapshot) and the artifact downloader (_download) with its          *)
(* NoRedirectHandler.                                                      *)
(*                                                                         *)
(* Representation.  A Python value is a tagged record [t, v].  A str is a  *)
(* sequence of pieces: single characters where the code scans characters   *)
(* (tokens, interface paths), JSON lexemes for response bodies, opaque     *)
(* literals elsewhere.  The server is the environment: every urlopen call  *)
(* consumes one exchange chosen nondeterministically.                      *)
(***************************************************************************)
EXTENDS Integers, Sequences, FiniteSets, TLC

VARIABLES self, opener, last

vars == <<self, opener, last>>

(***************************************************************************)
(* Python values                                                           *)
(***************************************************************************)
None == [t |-> "None", v |-> <<>>]
Str(s) == [t |-> "str", v |-> s]
PyInt(n) == [t |-> "int", v |-> n]
Dict(items) == [t |-> "dict", v |-> items]

\* bool(x) for None and str
Truthy(x) == x # None /\ x # Str(<<>>)

\* str.format of a value into '{}'
Format(x) ==
  IF x = None THEN <<"N", "o", "n", "e">> ELSE x.v

\* needle in hay (str containment)
Contains(needle, hay) ==
  \E i \in 1..(Len(hay) - Len(needle) + 1) :
     SubSeq(hay, i, i + Len(needle) - 1) = needle

(***************************************************************************)
(* urllib.parse.unquote: every %XX with two hex digits is replaced by the  *)
(* character it encodes; anything else is copied.                          *)
(***************************************************************************)
HexDigits == {"0", "1", "2", "3", "4", "5", "6", "7", "8", "9",
              "A", "B", "C", "D", "E", "F", "a", "b", "c", "d", "e", "f"}

\* the escapes of the characters the model's tokens use
HexChar(h, l) ==
  CASE h = "4" /\ l = "1" -> "A"
    [] h = "2" /\ l = "5" -> "%"
    [] h = "5" /\ l = "2" -> "R"
    [] h = "2" /\ l = "F" -> "/"
    [] h = "2" /\ l = "B" -> "+"
    [] OTHER -> "?"

RECURSIVE unquote(_)
unquote(s) ==
  IF s = <<>> THEN <<>>
  ELSE IF Len(s) >= 3 /\ s[1] = "%" /\ s[2] \in HexDigits /\ s[3] \in HexDigits
       THEN <<HexChar(s[2], s[3])>> \o unquote(SubSeq(s, 4, Len(s)))
       ELSE <<s[1]>> \o unquote(Tail(s))

(***************************************************************************)
(* json.loads on a body given as JSON lexemes.  Only flat objects with     *)
(* string members are modelled; anything else is a JSONDecodeError.        *)
(***************************************************************************)
Punct == {"{", "}", ":", ","}

RECURSIVE ParseMembers(_, _)
ParseMembers(toks, acc) ==
  IF Len(toks) >= 4 /\ toks[1] \notin Punct /\ toks[2] = ":" /\ toks[3] \notin Punct
  THEN LET acc2 == (toks[1] :> toks[3]) @@ acc
       IN  IF toks[4] = "}"
           THEN [ok |-> Len(toks) = 4, obj |-> acc2]
           ELSE IF toks[4] = ","
                THEN ParseMembers(SubSeq(toks, 5, Len(toks)), acc2)
                ELSE [ok |-> FALSE, obj |-> acc2]
  ELSE [ok |-> FALSE, obj |-> acc]

json_loads(text) ==
  IF text = <<"{", "}">> THEN [ok |-> TRUE, obj |-> <<>>]
  ELSE IF Len(text) >= 1 /\ text[1] = "{" THEN ParseMembers(Tail(text), <<>>)
  ELSE [ok |-> FALSE, obj |-> <<>>]

(***************************************************************************)
(* gzip: a compressed stream is the magic number followed by the payload.  *)
(***************************************************************************)
GzipMagic == "1f8b"
gzip_compress(data) == <<GzipMagic>> \o data
IsGzip(b) == Len(b) >= 1 /\ b[1] = GzipMagic
gzip_read(b) == Tail(b)

(***************************************************************************)
(* Results and outcomes of a call                                          *)
(***************************************************************************)
Result(success, code, response) ==
  [success |-> success, code |-> code, response |-> response]

NoResult == Result(FALSE, -1, None)

Return(r) == [raised |-> FALSE, exc |-> "", result |-> r]
Raise(e) == [raised |-> TRUE, exc |-> e, result |-> NoResult]

(***************************************************************************)
(* Static configuration imported by the module: the region table and the   *)
(* version constants.                                                      *)
(***************************************************************************)
regions ==
  [NA |-> [prod |-> <<"<NA production host>">>,
           sandbox |-> <<"<NA sandbox host>">>,
           token_url |-> <<"<NA token host>">>]]

versions == [api_version |-> <<"v2">>, application_version |-> <<"<version>">>]

(***************************************************************************)
(* Strings the code names                                                  *)
(***************************************************************************)
s_profiles == <<"p", "r", "o", "f", "i", "l", "e", "s">>
s_reports == <<"r", "e", "p", "o", "r", "t", "s", "/">>
s_snapshots == <<"s", "n", "a", "p", "s", "h", "o", "t", "s", "/">>
s_campaigns == <<"s", "p", "/", "c", "a", "m", "p", "a", "i", "g", "n", "s">>
s_register == <<"/", "r", "e", "g", "i", "s", "t", "e", "r">>

(***************************************************************************)
(* The session: AdvertisingApiV3.__init__                                  *)
(***************************************************************************)
AccessTokens == {None, Str(<<>>), Str(<<"T">>), Str(<<"%", "4", "1">>),
                 Str(<<"%", "2", "5", "4", "1">>)}
RefreshTokens == {None, Str(<<>>), Str(<<"%", "5", "2">>)}
ProfileIds == {None, Str(<<>>), Str(<<"P", "1">>)}

New(client_id, client_secret, region, profile_id, access_token, refresh_token, sandbox) ==
  [client_id |-> client_id,
   client_secret |-> client_secret,
   _access_token |-> access_token,
   refresh_token |-> refresh_token,
   api_version |-> versions.api_version,
   user_agent |-> <<"AdvertisingAPI Python Client Library v">>
                     \o versions.application_version,
   profile_id |-> profile_id,
   token_url |-> regions[region].token_url,
   sandbox |-> sandbox,
   endpoint |-> IF sandbox THEN regions[region].sandbox ELSE regions[region].prod]

(***************************************************************************)
(* The environment: what the server does with one request                  *)
(***************************************************************************)
Down == [kind |-> "down", status |-> 0, hasLocation |-> FALSE, location |-> <<>>,
         body |-> <<>>, final |-> "none"]
Ok(status, body) ==
  [kind |-> "http", status |-> status, hasLocation |-> FALSE, location |-> <<>>,
   body |-> body, final |-> "none"]
\* a 2xx answer that also carries a Location header
OkLocation(status, location, body) ==
  [kind |-> "http", status |-> status, hasLocation |-> TRUE, location |-> location,
   body |-> body, final |-> "none"]
Err(status, body) ==
  [kind |-> "http", status |-> status, hasLocation |-> FALSE, location |-> <<>>,
   body |-> body, final |-> "none"]
\* a 307; final and body are what the redirect target answers if the client
\* follows the redirect
Redirect(hasLocation, location, final, body) ==
  [kind |-> "http", status |-> 307, hasLocation |-> hasLocation,
   location |-> location, body |-> body, final |-> final]

Reason(status) ==
  CASE status = 0 -> ""
    [] status = 307 -> "Temporary Redirect"
    [] status = 404 -> "Not Found"
    [] status = 401 -> "Unauthorized"
    [] OTHER -> "OK"

B_ready == <<"{", "status", ":", "SUCCESS", ",", "location", ":", "U1", "}">>
B_pending == <<"{", "status", ":", "IN_PROGRESS", "}">>
B_readyNoLocation == <<"{", "status", ":", "SUCCESS", "}">>
B_empty == <<"{", "}">>
B_html == <<"<html>">>
B_token == <<"{", "access_token", ":", "N", "}">>
B_tokenError == <<"{", "error", ":", "access_token", "}">>
B_artifact == <<"{", "campaignId", ":", "1", "}">>
B_error == <<"no">>

Bodies == {B_ready, B_pending, B_readyNoLocation, B_empty, B_html, B_token,
           B_tokenError}

\* Location values: an absolute URL and a relative reference
U2 == <<"https://", "<storage host>", "/artifact">>
RelativeU == <<"/artifact">>

Redirects ==
  {Redirect(FALSE, <<>>, "none", <<>>), Redirect(TRUE, <<>>, "ok", B_pending),
   Redirect(TRUE, RelativeU, "ok", B_pending),
   Redirect(TRUE, U2, "ok", B_pending), Redirect(TRUE, U2, "err", B_error),
   Redirect(TRUE, U2, "down", <<>>)}

\* answers of the API host and of the token host
ApiExchanges ==
  {Down, Err(404, B_error), Ok(202, B_ready)} \cup {Ok(200, b) : b \in Bodies}
    \cup Redirects

\* answers of the storage host to the artifact fetch
ArtifactExchanges ==
  {Down, Err(404, B_error), Redirect(FALSE, <<>>, "none", <<>>),
   Ok(200, gzip_compress(B_artifact)), Ok(202, gzip_compress(B_artifact)),
   Ok(200, gzip_compress(B_html)), Ok(200, B_artifact)}

(***************************************************************************)
(* urllib.request.urlopen under the installed opener.  "default" is the    *)
(* opener urllib builds on first use; "NoRedirectHandler" is the opener    *)
(* _download installs.  The reply is what urlopen returns or raises.       *)
(***************************************************************************)
Reply(kind, code, body, location, trips) ==
  [kind |-> kind, code |-> code, msg |-> Reason(code), body |-> body,
   location |-> location, trips |-> trips]

\* NoRedirectHandler.http_response for a 307
http_response(x) ==
  IF x.hasLocation
  THEN Reply("dict", 307, <<>>, Str(x.location), 1)
  ELSE Reply("dict", x.status, <<>>, None, 1)

\* a mutation of FollowRedirect: the redirect is followed for every verb
FollowRedirect_anyVerb(method, x) ==
  IF x.hasLocation
  THEN CASE x.final = "ok" -> Reply("response", 200, x.body, None, 2)
         [] x.final = "err" -> Reply("HTTPError", 404, B_error, None, 2)
         [] OTHER -> Reply("URLError", 0, <<>>, None, 2)
  ELSE Reply("HTTPError", 307, <<>>, None, 1)

\* HTTPRedirectHandler of the default opener for a 307
FollowRedirect(method, x) ==
  IF x.hasLocation /\ method \in {"GET", "HEAD"}
  THEN CASE x.final = "ok" -> Reply("response", 200, x.body, None, 2)
         [] x.final = "err" -> Reply("HTTPError", 404, B_error, None, 2)
         [] OTHER -> Reply("URLError", 0, <<>>, None, 2)
  ELSE Reply("HTTPError", 307, <<>>, None, 1)

urlopen(op, method, x) ==
  IF x.kind = "down" THEN Reply("URLError", 0, <<>>, None, 1)
  ELSE IF x.status = 307
       THEN IF op = "NoRedirectHandler" THEN http_response(x)
            ELSE FollowRedirect(method, x)
       ELSE IF x.status >= 200 /\ x.status < 300
            THEN Reply("response", x.status, x.body, None, 1)
            ELSE Reply("HTTPError", x.status, x.body, None, 1)

\* '{msg}: {details}'.format(msg=e.msg, details=e.read()), e.read() being bytes
ErrorText(r) == <<r.msg, ": ", "b'">> \o r.body \o <<"'">>

\* Request(url=...) raises ValueError ("unknown url type") without a scheme
HasScheme(url) == Len(url) >= 1 /\ url[1] \in {"https://", "http://"}

Request(method, url, headers, data) ==
  [method |-> method, url |-> url, headers |-> headers, data |-> data]

Sent(req, x, r) == [req |-> req, x |-> x, reply |-> r]

(***************************************************************************)
(* Parameter encodings of the dispatcher and of the token request          *)
(***************************************************************************)
Digit(n) ==
  CASE n = 0 -> "0" [] n = 1 -> "1" [] n = 2 -> "2" [] n = 3 -> "3"
    [] n = 4 -> "4" [] n = 5 -> "5" [] n = 6 -> "6" [] n = 7 -> "7"
    [] n = 8 -> "8" [] OTHER -> "9"

\* str(v) of a parameter value
str(v) == IF v.t = "int" THEN <<Digit(v.v)>> ELSE Format(v)

\* a mutation of quote_plus: nothing is escaped
quote_plus_unescaped(s) == s

RECURSIVE quote_plus(_)
quote_plus(s) ==
  IF s = <<>> THEN <<>>
  ELSE (CASE s[1] = "%" -> <<"%", "2", "5">>
          [] s[1] = " " -> <<"+">>
          [] s[1] = "/" -> <<"%", "2", "F">>
          [] s[1] = "+" -> <<"%", "2", "B">>
          [] OTHER -> <<s[1]>>) \o quote_plus(Tail(s))

RECURSIVE urlencode(_)
urlencode(items) ==
  IF items = <<>> THEN <<>>
  ELSE quote_plus(<<items[1][1]>>) \o <<"=">> \o quote_plus(str(items[1][2]))
         \o (IF Len(items) > 1 THEN <<"&">> ELSE <<>>) \o urlencode(Tail(items))

\* json.dumps of a parameter value
json_value(v) ==
  IF v.t = "int" THEN <<Digit(v.v)>> ELSE <<"\"">> \o v.v \o <<"\"">>

RECURSIVE json_members(_)
json_members(items) ==
  IF items = <<>> THEN <<>>
  ELSE <<"\"", items[1][1], "\"", ": ">> \o json_value(items[1][2])
         \o (IF Len(items) > 1 THEN <<", ">> ELSE <<>>) \o json_members(Tail(items))

json_dumps(items) == <<"{">> \o json_members(items) \o <<"}">>

(***************************************************************************)
(* AdvertisingApiV3._operation                                             *)
(***************************************************************************)
Quiet(out) == [out |-> out, net |-> <<>>]

\* a mutation of use_version: the segment is written even when there is none
use_version_always(version) ==
  <<"/">> \o (IF version = None THEN <<>> ELSE Format(version))

\* the version segment of the URL with its leading slash, or nothing
use_version(version) ==
  IF version = None THEN <<>> ELSE <<"/">> \o Format(version)

\* a mutation of scoped: an empty profile_id counts as a profile
scoped_notNone(this) == this.profile_id # None

\* the session has a profile to scope the call to
scoped(this) == this.profile_id # None /\ this.profile_id # Str(<<>>)

_operation(this, op, interface, params, method, version, x) ==
  LET h0 == ("Authorization" :> (<<"Bearer ">> \o Format(this._access_token)))
              @@ ("Amazon-Advertising-API-ClientId" :> this.client_id)
              @@ ("Content-Type" :> <<"application/json">>)
              @@ ("User-Agent" :> this.user_agent)
      h1 == IF this.sandbox THEN ("BIDDING_CONTROLS_ON" :> <<"true">>) @@ h0 ELSE h0
      headers == IF scoped(this)
                 THEN ("Amazon-Advertising-API-Scope" :> this.profile_id.v) @@ h1
                 ELSE h1
      p == IF params # None THEN <<"?">> \o urlencode(params.v) ELSE <<>>
      url == IF method = "GET"
             THEN <<"https://">> \o this.endpoint \o use_version(version) \o <<"/">>
                    \o interface \o p
             ELSE <<"https://">> \o this.endpoint \o use_version(version) \o <<"/">>
                    \o interface
      data == IF method # "GET" /\ params # None
              THEN Str(json_dumps(params.v)) ELSE None
      req == Request(method, url, headers, data)
      f == urlopen(op, method, x)
  IN  IF this._access_token = None
      THEN Quiet(Return(Result(FALSE, 0, Str(<<"access_token is empty.">>))))
      ELSE IF ~scoped(this) /\ ~Contains(s_profiles, interface)
      THEN Quiet(Return(Result(FALSE, 0, Str(<<"profile_id is empty.">>))))
      ELSE [net |-> <<Sent(req, x, f)>>,
            out |-> CASE f.kind = "response" ->
                           Return(Result(TRUE, f.code, Str(f.body)))
                      [] f.kind = "HTTPError" ->
                           Return(Result(FALSE, f.code, Str(ErrorText(f))))
                      [] f.kind = "dict" -> Raise("AttributeError")
                      [] OTHER -> Raise("URLError")]

(***************************************************************************)
(* AdvertisingApiV3.do_refresh_token                                       *)
(***************************************************************************)
\* a mutation of DecodeAccessToken: the stored token is left as it was
DecodeAccessToken_kept(this) == this._access_token

\* if self._access_token: self._access_token = unquote(self._access_token)
DecodeAccessToken(this) ==
  IF Truthy(this._access_token)
  THEN Str(unquote(this._access_token.v)) ELSE this._access_token

do_refresh_token(this, op, x) ==
  LET at == DecodeAccessToken(this)
      rt == Str(unquote(this.refresh_token.v))
      this1 == [this EXCEPT !._access_token = at, !.refresh_token = rt]
      params == << <<"grant_type", Str(<<"refresh_token">>)>>,
                   <<"refresh_token", rt>>,
                   <<"client_id", Str(this.client_id)>>,
                   <<"client_secret", Str(this.client_secret)>> >>
      req == Request("POST", <<"https://">> \o this.token_url, <<>>,
                     Str(urlencode(params)))
      f == urlopen(op, "POST", x)
      json_data == json_loads(f.body)
      new == Str(<<json_data.obj["access_token"]>>)
  IN  IF this.refresh_token = None
      THEN [out |-> Return(Result(FALSE, 0, Str(<<"refresh_token is empty.">>))),
            net |-> <<>>, self |-> this]
      ELSE IF f.kind = "response" /\ Contains(<<"access_token">>, f.body)
                /\ json_data.ok /\ "access_token" \in DOMAIN json_data.obj
      THEN [out |-> Return(Result(TRUE, f.code, new)),
            net |-> <<Sent(req, x, f)>>,
            self |-> [this1 EXCEPT !._access_token = new]]
      ELSE [net |-> <<Sent(req, x, f)>>,
            self |-> this1,
            out |-> CASE f.kind = "response" ->
                           IF ~Contains(<<"access_token">>, f.body)
                           THEN Return(Result(FALSE, f.code,
                                         Str(<<"access_token not in response.">>)))
                           ELSE IF ~json_data.ok THEN Raise("JSONDecodeError")
                           ELSE Raise("KeyError")
                      [] f.kind = "HTTPError" ->
                           Return(Result(FALSE, f.code, Str(ErrorText(f))))
                      [] f.kind = "dict" -> Raise("AttributeError")
                      [] OTHER -> Raise("URLError")]

(***************************************************************************)
(* AdvertisingApiV3._download.  x1 answers the first fetch, x2 the fetch   *)
(* of the redirect target.  The opener it installs stays installed.        *)
(***************************************************************************)
\* a mutation of ArtifactResult: the code of the redirect response is reported
ArtifactResult_first(response, res) ==
  LET decoded == json_loads(gzip_read(res.body))
  IN  IF ~IsGzip(res.body) THEN Raise("BadGzipFile")
      ELSE IF ~decoded.ok THEN Raise("JSONDecodeError")
      ELSE Return(Result(TRUE, response.code, Dict(decoded.obj)))

\* the body of the second response: gzip, utf-8, json.loads
ArtifactResult(response, res) ==
  LET decoded == json_loads(gzip_read(res.body))
  IN  IF ~IsGzip(res.body) THEN Raise("BadGzipFile")
      ELSE IF ~decoded.ok THEN Raise("JSONDecodeError")
      ELSE Return(Result(TRUE, res.code, Dict(decoded.obj)))

_download(this, op, location, x1, x2) ==
  LET headers == ("Authorization" :> (<<"Bearer ">> \o Format(this._access_token)))
                   @@ ("Content-Type" :> <<"application/json">>)
                   @@ ("User-Agent" :> this.user_agent)
                   @@ ("Amazon-Advertising-API-Scope" :> Format(this.profile_id))
      installed == "NoRedirectHandler"
      req == Request("GET", Format(location), headers, None)
      response == urlopen(installed, "GET", x1)
      first == Sent(req, x1, response)
      req2 == Request("GET", Format(response.location), <<>>, None)
      res == urlopen(installed, "GET", x2)
      second == Sent(req2, x2, res)
  IN  IF this.profile_id = None
      THEN [out |-> Raise("ValueError"), net |-> <<>>, opener |-> op]
      ELSE IF response.kind = "dict" /\ response.location # None
                /\ HasScheme(response.location.v)
      THEN [net |-> <<first, second>>,
            opener |-> installed,
            out |-> CASE res.kind = "response" -> ArtifactResult(response, res)
                      [] res.kind = "HTTPError" ->
                           Return(Result(FALSE, res.code, Str(ErrorText(res))))
                      [] res.kind = "dict" -> Raise("AttributeError")
                      [] OTHER -> Raise("URLError")]
      ELSE [net |-> <<first>>,
            opener |-> installed,
            out |-> CASE response.kind = "dict" ->
                           IF response.location = None
                           THEN Raise("AttributeError")
                           ELSE Raise("ValueError")
                      [] response.kind = "response" ->
                           Return(Result(FALSE, response.code,
                                         Str(<<"Location not found.">>)))
                      [] response.kind = "HTTPError" ->
                           Return(Result(FALSE, response.code,
                                         Str(ErrorText(response))))
                      [] OTHER -> Raise("URLError")]

(***************************************************************************)
(* AdvertisingApiV3.get_report and get_snapshot                            *)
(***************************************************************************)
NotDownloaded(o, op, out) ==
  [out |-> out, net |-> o.net, opener |-> op, status |-> o.out,
   downloaded |-> FALSE, location |-> None]

\* json.loads(res['response'])['status'] == 'SUCCESS', then the download
StatusOrArtifact(this, op, o, x2, x3) ==
  LET res == o.out.result
      body == json_loads(res.response.v)
      location == Str(<<body.obj["location"]>>)
      d == _download(this, op, location, x2, x3)
  IN  IF ~body.ok THEN NotDownloaded(o, op, Raise("JSONDecodeError"))
      ELSE IF "status" \notin DOMAIN body.obj
      THEN NotDownloaded(o, op, Raise("KeyError"))
      ELSE IF body.obj["status"] # "SUCCESS" THEN NotDownloaded(o, op, o.out)
      ELSE IF "location" \notin DOMAIN body.obj
      THEN NotDownloaded(o, op, Raise("KeyError"))
      ELSE [out |-> d.out, net |-> o.net \o d.net, opener |-> d.opener,
            status |-> o.out, downloaded |-> TRUE, location |-> location]

get_report(this, op, report_id, x1, x2, x3) ==
  LET interface == s_reports \o report_id
      o == _operation(this, op, interface, None, "GET", Str(<<"v2">>), x1)
  IN  IF o.out.raised THEN NotDownloaded(o, op, o.out)
      ELSE IF o.out.result.code = 200
      THEN StatusOrArtifact(this, op, o, x2, x3)
      ELSE NotDownloaded(o, op, o.out)

get_snapshot(this, op, snapshot_id, x1, x2, x3) ==
  LET interface == s_snapshots \o snapshot_id
      o == _operation(this, op, interface, None, "GET", Str(<<"v2">>), x1)
  IN  IF o.out.raised THEN NotDownloaded(o, op, o.out)
      ELSE StatusOrArtifact(this, op, o, x2, x3)

(***************************************************************************)
(* Inputs of the calls                                                     *)
(***************************************************************************)
Interfaces == {s_profiles, s_profiles \o s_register, s_campaigns,
               s_reports \o s_profiles}
Params == {None, Dict(<<>>), Dict(<< <<"a", PyInt(1)>>, <<"b", PyInt(2)>> >>),
           Dict(<< <<"a", Str(<<"1">>)>> >>),
           Dict(<< <<"q", Str(<<"+", "s">>)>>, <<"b", Str(<<"x">>)>> >>)}
Methods == {"GET", "PUT", "POST", "DELETE"}
Versions == {Str(<<"v2">>), Str(<<>>), None}
Ids == {<<"7">>, s_profiles}
Locations == {Str(<<"U1">>)}

\* answers that matter to a plain dispatcher call
DispatchExchanges ==
  {Down, Err(404, B_error), Ok(200, B_pending), Ok(202, B_ready),
   Redirect(FALSE, <<>>, "none", <<>>), Redirect(TRUE, U2, "ok", B_pending),
   Redirect(TRUE, U2, "err", B_error)}

\* answers of the API host to the first fetch of a download
HopExchanges ==
  {Down, Err(404, B_error), Ok(200, B_html), OkLocation(200, U2, B_html)}
    \cup Redirects

NoArgs ==
  [interface |-> <<>>, params |-> None, method |-> "", version |-> None,
   id |-> <<>>, location |-> None, value |-> None]

\* no call is pending inspection: the caller is free to make the next call
Idle ==
  [op |-> "idle", args |-> NoArgs, pre |-> None, preOpener |-> "",
   net |-> <<>>, out |-> Return(NoResult), status |-> Return(NoResult),
   downloaded |-> FALSE, location |-> None, postOpener |-> ""]

\* the record of a completed call
Call(name, args, r, op2) ==
  [op |-> name, args |-> args, pre |-> self, preOpener |-> opener,
   net |-> r.net, out |-> r.out, status |-> r.status,
   downloaded |-> r.downloaded, location |-> r.location, postOpener |-> op2]

Plain(r) ==
  [out |-> r.out, net |-> r.net, status |-> r.out, downloaded |-> FALSE,
   location |-> None]

(***************************************************************************)
(* The state machine: a session and the calls made on it                   *)
(***************************************************************************)
Init ==
  /\ \E profile_id \in ProfileIds, access_token \in AccessTokens,
        refresh_token \in RefreshTokens, sandbox \in BOOLEAN :
       self = New(<<"<client id>">>, <<"<client secret>">>, "NA", profile_id,
                  access_token, refresh_token, sandbox)
  /\ opener = "default"
  /\ last = Idle

\* the access_token property setter
SetAccessToken ==
  /\ last = Idle
  /\ \E value \in AccessTokens :
       /\ self' = [self EXCEPT !._access_token = value]
       /\ last' = Call("access_token", [NoArgs EXCEPT !.value = value],
                       Plain([out |-> Return(NoResult), net |-> <<>>]), opener)
       /\ UNCHANGED opener

Operation ==
  /\ last = Idle
  /\ \E interface \in Interfaces, params \in Params, method \in Methods,
        version \in Versions, x \in DispatchExchanges :
       /\ last' = Call("_operation",
                       [NoArgs EXCEPT !.interface = interface, !.params = params,
                                      !.method = method, !.version = version],
                       Plain(_operation(self, opener, interface, params, method,
                                        version, x)), opener)
       /\ UNCHANGED <<self, opener>>

Refresh ==
  /\ last = Idle
  /\ \E x \in ApiExchanges :
       LET r == do_refresh_token(self, opener, x)
       IN  /\ self' = r.self
           /\ last' = Call("do_refresh_token", NoArgs, Plain(r), opener)
           /\ UNCHANGED opener

Download ==
  /\ last = Idle
  /\ \E location \in Locations, x1 \in HopExchanges, x2 \in ArtifactExchanges :
       LET r == _download(self, opener, location, x1, x2)
       IN  /\ opener' = r.opener
           /\ last' = Call("_download", [NoArgs EXCEPT !.location = location],
                           [out |-> r.out, net |-> r.net, status |-> r.out,
                            downloaded |-> TRUE, location |-> location], r.opener)
           /\ UNCHANGED self

\* the call is over: opener and record follow from its outcome r
Finish(name, args, r) ==
  /\ opener' = r.opener
  /\ last' = Call(name, args, r, r.opener)
  /\ UNCHANGED self

GetReport ==
  /\ last = Idle
  /\ \E report_id \in Ids, x1 \in ApiExchanges :
       IF get_report(self, opener, report_id, x1, Down, Down).downloaded
       THEN \E x2 \in HopExchanges, x3 \in ArtifactExchanges :
              Finish("get_report", [NoArgs EXCEPT !.id = report_id],
                     get_report(self, opener, report_id, x1, x2, x3))
       ELSE Finish("get_report", [NoArgs EXCEPT !.id = report_id],
                   get_report(self, opener, report_id, x1, Down, Down))

GetSnapshot ==
  /\ last = Idle
  /\ \E snapshot_id \in Ids, x1 \in ApiExchanges :
       IF get_snapshot(self, opener, snapshot_id, x1, Down, Down).downloaded
       THEN \E x2 \in HopExchanges, x3 \in ArtifactExchanges :
              Finish("get_snapshot", [NoArgs EXCEPT !.id = snapshot_id],
                     get_snapshot(self, opener, snapshot_id, x1, x2, x3))
       ELSE Finish("get_snapshot", [NoArgs EXCEPT !.id = snapshot_id],
                   get_snapshot(self, opener, snapshot_id, x1, Down, Down))

\* the caller has taken the outcome of the call and goes on
Resume ==
  /\ last # Idle
  /\ last' = Idle
  /\ UNCHANGED <<self, opener>>

Next ==
  \/ SetAccessToken
  \/ Operation
  \/ Refresh
  \/ Download
  \/ GetReport
  \/ GetSnapshot
  \/ Resume

Spec == Init /\ [][Next]_vars

(***************************************************************************)
(* Properties                                                              *)
(***************************************************************************)
Failure(code, text) == Return(Result(FALSE, code, Str(<<text>>)))

\* an interface is under "profiles" when it is that collection or a path below it
UnderProfiles(interface) ==
  \/ interface = s_profiles
  \/ /\ Len(interface) > Len(s_profiles)
     /\ SubSeq(interface, 1, Len(s_profiles) + 1) = s_profiles \o <<"/">>

Dispatched == last.op = "_operation"
Refreshed == last.op = "do_refresh_token"

\* C1: a dispatcher call made while access_token is absent or empty returns
\* exactly {success:false, code:0, response:"access_token is empty."} and
\* sends no request, whatever the other arguments and the session are.
C1_EmptyAccessTokenShortCircuits ==
  (Dispatched /\ ~Truthy(last.pre._access_token))
    => (last.out = Failure(0, "access_token is empty.") /\ last.net = <<>>)

\* C2: with access_token set and profile_id None or empty, a dispatcher call
\* returns {success:false, code:0, response:"profile_id is empty."} without a
\* request for every path not under "profiles", and sends the request for
\* every path under "profiles".
C2_ProfileRequiredOutsideProfiles ==
  (Dispatched /\ Truthy(last.pre._access_token) /\ ~Truthy(last.pre.profile_id))
    => IF UnderProfiles(last.args.interface)
       THEN Len(last.net) = 1
       ELSE last.out = Failure(0, "profile_id is empty.") /\ last.net = <<>>

\* C3: a refresh made while refresh_token is None or empty returns exactly
\* {success:false, code:0, response:"refresh_token is empty."} and sends no
\* request.
C3_EmptyRefreshTokenShortCircuits ==
  (Refreshed /\ ~Truthy(last.pre.refresh_token))
    => (last.out = Failure(0, "refresh_token is empty.") /\ last.net = <<>>)

\* the token endpoint answered the refresh without an HTTP error
TokenAnswered ==
  Refreshed /\ Len(last.net) = 1 /\ last.net[1].reply.kind = "response"

\* the answer's body is a JSON object with an access_token member
HasAccessTokenField(body) ==
  json_loads(body).ok /\ "access_token" \in DOMAIN json_loads(body).obj

\* C4: when the token endpoint answers a refresh without an HTTP error, a body
\* with an access_token field gives {success:true, code:<status>,
\* response:<new token>} and the session's access_token is that token; a body
\* without the field gives {success:false, code:<status>,
\* response:"access_token not in response."}.  Either way a Result is returned.
C4_RefreshOutcome ==
  TokenAnswered
    => LET f == last.net[1].reply
       IN  IF HasAccessTokenField(f.body)
           THEN /\ last.out = Return(Result(TRUE, f.code,
                                 Str(<<json_loads(f.body).obj["access_token"]>>)))
                /\ self._access_token = last.out.result.response
           ELSE last.out = Failure(f.code, "access_token not in response.")

\* the refresh did not return success=true
RefreshFailed == Refreshed /\ (last.out.raised \/ ~last.out.result.success)

\* C5 as stated: a refresh that does not return success=true leaves the
\* session's access_token equal to what it was before the call.
C5_FailedRefreshKeepsAccessToken ==
  RefreshFailed => self._access_token = last.pre._access_token

\* the URL-decoded form of a stored token
Decoded(token) == IF Truthy(token) THEN Str(unquote(token.v)) ELSE token

\* C5 amended: a refresh that does not return success=true leaves the
\* access_token untouched when it short-circuits on a missing refresh_token,
\* and otherwise leaves it equal to the URL-decoded form of the access_token
\* before the call (the same token when it holds no percent escape).
C5_FailedRefreshDecodesAccessToken ==
  RefreshFailed
    => self._access_token =
         IF last.pre.refresh_token = None THEN last.pre._access_token
         ELSE Decoded(last.pre._access_token)

\* a refresh failed on a session whose access_token was percent-encoded
C5_Witness ==
  /\ RefreshFailed
  /\ last.net # <<>>
  /\ last.pre._access_token = Str(<<"%", "4", "1">>)
  /\ self._access_token = Str(<<"A">>)

(***************************************************************************)
(* Report and snapshot retrieval                                           *)
(***************************************************************************)
\* the status fetch returned code 200 and a body whose status is "SUCCESS"
StatusReady(st) ==
  /\ ~st.raised
  /\ st.result.code = 200
  /\ json_loads(st.result.response.v).ok
  /\ "status" \in DOMAIN json_loads(st.result.response.v).obj
  /\ json_loads(st.result.response.v).obj["status"] = "SUCCESS"

\* C6: get_report invokes the downloader with exactly the decoded location and
\* returns the downloader's Result when the status fetch returns code 200 and
\* status "SUCCESS"; in every other case it returns the status Result
\* unchanged and the downloader is not invoked.
C6_ReportStatusOrArtifact ==
  (last.op = "get_report" /\ ~last.status.raised)
    => IF StatusReady(last.status)
       THEN /\ last.downloaded
            /\ "location" \in DOMAIN json_loads(last.status.result.response.v).obj
            /\ last.location =
                 Str(<<json_loads(last.status.result.response.v).obj["location"]>>)
            /\ ~last.out.raised
       ELSE /\ ~last.downloaded
            /\ ~last.out.raised
            /\ last.out = last.status

\* the i-th answer the call consumed
Answer(i) == IF Len(last.net) >= i THEN last.net[i].x ELSE Down

\* C7: get_snapshot ends as get_report does on the same session and the same
\* answers; in particular a status Result whose code is not 200 (the code 0
\* short-circuits included) is returned unchanged.
C7_SnapshotMirrorsReport ==
  last.op = "get_snapshot"
    => LET r == get_report(last.pre, last.preOpener, last.args.id,
                           Answer(1), Answer(2), Answer(3))
       IN  /\ last.out = r.out
           /\ last.downloaded = r.downloaded
           /\ (~last.status.raised /\ last.status.result.code # 200)
                => last.out = last.status

(***************************************************************************)
(* The downloader                                                          *)
(***************************************************************************)
\* the requests of the download within the call
DownloadNet ==
  IF last.op = "_download" THEN last.net ELSE SubSeq(last.net, 2, Len(last.net))

\* the download sent its first request
FirstHop == last.downloaded /\ Len(DownloadNet) >= 1

\* the answer to the second request is 2xx with a gzip-compressed JSON body
ArtifactAnswered ==
  /\ Len(DownloadNet) = 2
  /\ DownloadNet[2].reply.kind = "response"
  /\ IsGzip(DownloadNet[2].x.body)
  /\ json_loads(gzip_read(DownloadNet[2].x.body)).ok

\* the second request goes to exactly the Location, without headers
SecondFetch(location) ==
  /\ Len(DownloadNet) = 2
  /\ DownloadNet[2].req.method = "GET"
  /\ DownloadNet[2].req.url = location
  /\ DownloadNet[2].req.headers = <<>>

ArtifactOutcome(code) ==
  ArtifactAnswered
    => last.out = Return(Result(TRUE, code,
                    Dict(json_loads(gzip_read(DownloadNet[2].x.body)).obj)))

\* the first answer is a redirect (307) that carries a Location (a URL)
Redirected ==
  /\ FirstHop
  /\ DownloadNet[1].x.kind = "http"
  /\ DownloadNet[1].x.status = 307
  /\ DownloadNet[1].x.hasLocation
  /\ HasScheme(DownloadNet[1].x.location)

\* C8 as stated: when the first (redirect) answer carries a Location, the
\* downloader fetches exactly that URL without headers and returns the decoded
\* artifact with the status of the first answer as code.
C8_ArtifactCodeIsFirstStatus ==
  Redirected
    => /\ SecondFetch(DownloadNet[1].x.location)
       /\ ArtifactOutcome(DownloadNet[1].x.status)

\* C8 amended: when the first (redirect) answer carries a Location, the
\* downloader sends a second GET to exactly that URL without headers, and
\* when that fetch answers with a gzip-compressed JSON body it returns
\* {success:true, code:<status of the second answer>, response:<decoded JSON>}:
\* the code is the status of the second fetch, not of the redirect.
C8_ArtifactCodeIsSecondStatus ==
  Redirected
    => /\ SecondFetch(DownloadNet[1].x.location)
       /\ ArtifactOutcome(DownloadNet[2].x.status)

\* a download followed the redirect and decoded the artifact answered with 202
C8_Witness ==
  /\ Redirected
  /\ ArtifactAnswered
  /\ DownloadNet[2].req.url = U2
  /\ last.out = Return(Result(TRUE, 202, Dict("campaignId" :> "1")))

\* C9: when the first answer carries no usable Location the downloader returns
\* {success:false, code:<status>, response:"Location is empty."} if the
\* location key is present but empty and "Location not found." if the key is
\* absent, sends no second request and raises nothing.
C9_NoLocationIsAFailureResult ==
  (FirstHop /\ (\/ DownloadNet[1].reply.kind = "response"
                \/ /\ DownloadNet[1].reply.kind = "dict"
                   /\ ~Truthy(DownloadNet[1].reply.location)))
    => /\ Len(DownloadNet) = 1
       /\ last.out = Failure(DownloadNet[1].reply.code,
                             IF DownloadNet[1].reply.kind = "dict"
                             THEN "Location is empty."
                             ELSE "Location not found.")

(***************************************************************************)
(* Failures of network calls                                               *)
(***************************************************************************)
PublicOperations ==
  {"_operation", "do_refresh_token", "get_report", "get_snapshot", "_download"}

\* some request of the call failed: an HTTP error or no connection
NetworkFailed ==
  \E i \in 1..Len(last.net) : last.net[i].reply.kind \in {"HTTPError", "URLError"}

\* C10: every failed network call of a public operation is returned as a
\* Result with success=false, and nothing is raised except the downloader's
\* error for a missing profile_id.
C10_FailuresAreResults ==
  last.op \in PublicOperations
    => /\ NetworkFailed => (~last.out.raised /\ ~last.out.result.success)
       /\ last.out.raised
            => (last.out.exc = "ValueError" /\ last.downloaded
                  /\ last.pre.profile_id = None)

(***************************************************************************)
(* Request shaping                                                         *)
(***************************************************************************)
\* position of the first piece c in s, Len(s) + 1 if there is none
RECURSIVE Find(_, _)
Find(c, s) ==
  IF s = <<>> THEN 1 ELSE IF s[1] = c THEN 1 ELSE 1 + Find(c, Tail(s))

\* urllib.parse.unquote_plus
unquote_plus(s) == unquote([i \in 1..Len(s) |-> IF s[i] = "+" THEN " " ELSE s[i]])

\* urllib.parse.parse_qsl(query, keep_blank_values=True), keys being one piece
RECURSIVE parse_qsl(_)
parse_qsl(query) ==
  IF query = <<>> THEN <<>>
  ELSE LET n == Find("&", query)
           field == SubSeq(query, 1, n - 1)
           e == Find("=", field)
       IN  << <<field[1], Str(unquote_plus(SubSeq(field, e + 1, Len(field))))>> >>
             \o parse_qsl(SubSeq(query, n + 1, Len(query)))

\* json.loads of the text json_dumps writes: the members between the braces
RECURSIVE loads_members(_)
loads_members(text) ==
  IF text = <<>> THEN <<>>
  ELSE LET key == text[2]
           rest == SubSeq(text, 5, Len(text))
           isStr == rest[1] = "\""
           close == Find("\"", Tail(rest))
           value == IF isStr THEN Str(SubSeq(rest, 2, close))
                    ELSE PyInt(CHOOSE n \in 0..9 : Digit(n) = rest[1])
           after == IF isStr THEN SubSeq(rest, close + 2, Len(rest)) ELSE Tail(rest)
       IN  << <<key, value>> >>
             \o loads_members(IF after # <<>> /\ after[1] = ", "
                              THEN Tail(after) ELSE after)

loads_items(text) == loads_members(SubSeq(text, 2, Len(text) - 1))

\* the mapping with every value replaced by its text
Stringified(items) ==
  [i \in 1..Len(items) |-> <<items[i][1], Str(str(items[i][2]))>>]

\* a dispatcher call that sent its request
DispatchSent == Dispatched /\ Len(last.net) = 1

\* the URL of the call without a query string
BaseUrl ==
  <<"https://">> \o last.pre.endpoint
    \o (IF last.args.version = None THEN <<>> ELSE <<"/">> \o last.args.version.v)
    \o <<"/">> \o last.args.interface

QueryOf(url) == SubSeq(url, Find("?", url) + 1, Len(url))

\* GET puts the parameters in the query string and sends no body; the other
\* verbs put them in a JSON body and send no query string
Shaped ==
  LET req == last.net[1].req
  IN  IF last.args.method = "GET"
      THEN /\ req.data = None
           /\ req.url = BaseUrl \o (IF last.args.params = None THEN <<>>
                                    ELSE <<"?">> \o QueryOf(req.url))
      ELSE /\ req.url = BaseUrl
           /\ (last.args.params = None) = (req.data = None)

\* C11 as stated: GET carries the parameters in the query string with an empty
\* body, PUT, POST and DELETE carry them as a JSON body without a query
\* string, and the form sent decodes back to the parameter mapping, so the
\* query-string form and the JSON form of a mapping decode to the same mapping.
C11_FormsDecodeToTheMapping ==
  DispatchSent
    => /\ Shaped
       /\ last.args.params # None
            => IF last.args.method = "GET"
               THEN parse_qsl(QueryOf(last.net[1].req.url)) = last.args.params.v
               ELSE loads_items(last.net[1].req.data.v) = last.args.params.v

\* C11 amended: the shaping is as stated; the JSON body decodes back to the
\* parameter mapping, the query string decodes back to the mapping with every
\* value replaced by its text, so the two forms decode to the same mapping
\* exactly when every value is a string.
C11_QueryDecodesToText ==
  DispatchSent
    => /\ Shaped
       /\ last.args.params # None
            => IF last.args.method = "GET"
               THEN parse_qsl(QueryOf(last.net[1].req.url))
                      = Stringified(last.args.params.v)
               ELSE loads_items(last.net[1].req.data.v) = last.args.params.v

\* a GET sent {"a": 1, "b": 2} as a=1&b=2, which decodes to texts, not integers
C11_Witness ==
  /\ DispatchSent
  /\ last.args.method = "GET"
  /\ last.args.params = Dict(<< <<"a", PyInt(1)>>, <<"b", PyInt(2)>> >>)
  /\ QueryOf(last.net[1].req.url) = <<"a", "=", "1", "&", "b", "=", "2">>
  /\ parse_qsl(QueryOf(last.net[1].req.url))
       = << <<"a", Str(<<"1">>)>>, <<"b", Str(<<"2">>)>> >>

(***************************************************************************)
(* C12: the URL of a dispatcher call                                       *)
(***************************************************************************)
\* the URL up to its query string
PathOf(url) ==
  IF Find("?", url) <= Len(url) THEN SubSeq(url, 1, Find("?", url) - 1) ELSE url

\* the host the session talks to: the sandbox host of its region in sandbox
\* mode, the production host otherwise
ActiveHost == IF last.pre.sandbox THEN regions.NA.sandbox ELSE regions.NA.prod

\* no segment of the URL is empty: past the scheme no slash follows a slash
NoEmptySegment(url) ==
  \A i \in 2..(Len(url) - 1) : ~(url[i] = "/" /\ url[i + 1] = "/")

\* C12: the URL of every request the dispatcher sends is
\* https://{active_host}/{version}/{path}, where active_host is the sandbox
\* host of the region in sandbox mode and its production host otherwise; when
\* the version is suppressed (None) the segment is left out whole, so the URL
\* is https://{active_host}/{path} with no empty segment.
C12_UrlComposition ==
  DispatchSent
    => LET url == PathOf(last.net[1].req.url)
       IN  /\ last.net[1].req.method = last.args.method
           /\ IF last.args.version = None
              THEN /\ url = <<"https://">> \o ActiveHost \o <<"/">>
                              \o last.args.interface
                   /\ NoEmptySegment(url)
              ELSE url = <<"https://">> \o ActiveHost \o <<"/">>
                           \o last.args.version.v \o <<"/">>
                           \o last.args.interface

\* a sandbox session of region NA listed its campaigns
C12_Witness ==
  /\ DispatchSent
  /\ last.pre.sandbox
  /\ last.args.interface = s_campaigns
  /\ last.args.method = "GET"
  /\ last.args.params = None
  /\ last.args.version = Str(<<"v2">>)
  /\ last.net[1].req.method = "GET"
  /\ last.net[1].req.url
       = <<"https://", "<NA sandbox host>", "/", "v2", "/">> \o s_campaigns

(***************************************************************************)
(* C13: the headers of a dispatcher call                                   *)
(***************************************************************************)
\* the headers every request carries
AlwaysSent ==
  {"Authorization", "Amazon-Advertising-API-ClientId", "Content-Type",
   "User-Agent"}

\* the session has a profile_id that is neither None nor the empty string
ProfilePresent == last.pre.profile_id # None /\ last.pre.profile_id # Str(<<>>)

\* C13: every request the dispatcher sends carries Authorization: Bearer and
\* the access_token of the session at the call, the ClientId header,
\* Content-Type: application/json and the fixed User-Agent; it carries the
\* sandbox marker exactly when the session is in sandbox mode and the scope
\* header exactly when profile_id is neither None nor empty, with the
\* profile_id of the session as its value; it carries nothing else.
C13_Headers ==
  DispatchSent
    => LET h == last.net[1].req.headers
       IN  /\ AlwaysSent \subseteq DOMAIN h
           /\ h["Authorization"] = <<"Bearer ">> \o last.pre._access_token.v
           /\ h["Amazon-Advertising-API-ClientId"] = last.pre.client_id
           /\ h["Content-Type"] = <<"application/json">>
           /\ h["User-Agent"] = <<"AdvertisingAPI Python Client Library v">>
                                   \o versions.application_version
           /\ ("BIDDING_CONTROLS_ON" \in DOMAIN h) = last.pre.sandbox
           /\ ("Amazon-Advertising-API-Scope" \in DOMAIN h) = ProfilePresent
           /\ ProfilePresent
                => h["Amazon-Advertising-API-Scope"] = last.pre.profile_id.v
           /\ DOMAIN h \subseteq AlwaysSent \cup {"BIDDING_CONTROLS_ON",
                                                  "Amazon-Advertising-API-Scope"}

\* a production session with an empty profile_id called an interface under
\* profiles: the request went out with the four fixed headers only, the
\* Authorization header carrying the token as the session stores it
C13_Witness ==
  /\ DispatchSent
  /\ ~last.pre.sandbox
  /\ last.pre.profile_id = Str(<<>>)
  /\ last.pre._access_token = Str(<<"%", "4", "1">>)
  /\ DOMAIN last.net[1].req.headers = AlwaysSent
  /\ last.net[1].req.headers["Authorization"] = <<"Bearer ", "%", "4", "1">>

(***************************************************************************)
(* C14: the outcome of a dispatcher call                                   *)
(***************************************************************************)
\* the dispatcher returned a Result
Returned == Dispatched /\ ~last.out.raised

\* the server answered the request of the call with an HTTP response
Arrived == Len(last.net) = 1 /\ last.net[1].x.kind = "http"

ShortCircuits ==
  {Str(<<"access_token is empty.">>), Str(<<"profile_id is empty.">>)}

\* "<message>: <error body>"
MessageAndBody(r) == <<r.msg, ": ">> \o r.body

\* C14: every Result the dispatcher returns has success=true exactly when a
\* 2xx or 3xx response arrived, and then code is the status of the response
\* read and response is its body as text; for an HTTP error response it has
\* success=false, code = the error status and response =
\* "<message>: <error body>"; it has code=0 only for the two precondition
\* short-circuits, which send nothing.
C14_OutcomeMapping ==
  Returned
    => LET r == last.out.result
       IN  /\ r.success = (Arrived /\ last.net[1].x.status \in 200..399)
           /\ (Arrived /\ r.success)
                => /\ r.code = last.net[1].reply.code
                   /\ r.code \in 200..399
                   /\ r.response = Str(last.net[1].reply.body)
           /\ (Arrived /\ last.net[1].reply.kind = "HTTPError")
                => /\ ~r.success
                   /\ r.code = last.net[1].reply.code
                   /\ r.response = Str(MessageAndBody(last.net[1].reply))
           /\ r.code = 0
                => ~r.success /\ last.net = <<>> /\ r.response \in ShortCircuits

(***************************************************************************)
(* C15: the network requests of one call                                   *)
(***************************************************************************)
Orchestrated == last.op \in {"get_report", "get_snapshot"}

\* the request took the round trip to the server and, when urllib followed a
\* redirect by itself, a second one to the redirect target
FollowedByUrllib(i) ==
  /\ last.net[i].reply.trips = 2
  /\ last.net[i].req.method = "GET"
  /\ last.net[i].x.status = 307
  /\ last.net[i].x.hasLocation

UndisturbedOutcome ==
  IF Dispatched
  THEN _operation(last.pre, "default", last.args.interface, last.args.params,
                  last.args.method, last.args.version, last.net[1].x).out
  ELSE do_refresh_token(last.pre, "default", last.net[1].x).out

\* C16: a public operation leaves refresh_token, profile_id, the active host
\* and the installed opener as they were, only a refresh changes
\* access_token, and the outcome of a dispatcher call or a refresh for a
\* given answer of the server is the one it has when no download ran before.
C16_NoSharedStateButAccessToken ==
  last.op \in PublicOperations
    => /\ self.refresh_token = last.pre.refresh_token
       /\ self.profile_id = last.pre.profile_id
       /\ self.endpoint = last.pre.endpoint
       /\ self.token_url = last.pre.token_url
       /\ last.postOpener = last.preOpener
       /\ opener = last.preOpener
       /\ ~Refreshed => self._access_token = last.pre._access_token
       /\ ((Dispatched \/ Refreshed) /\ Len(last.net) = 1)
            => last.out = UndisturbedOutcome

(***************************************************************************)
(* C17: the profile of a download started by get_report or get_snapshot    *)
(***************************************************************************)
\* _download raised ValueError('Invalid profile Id.'): it was reached and sent
\* nothing
InvalidProfileId ==
  /\ last.downloaded
  /\ last.out = Raise("ValueError")
  /\ Len(last.net) = 1

\* C17: whenever get_report or get_snapshot reaches the downloader the
\* session has a profile_id, whatever the id and the answers of the server,
\* so the downloader's 'Invalid profile Id.' error is never raised through
\* these two operations.
C17_DownloadHasProfile ==
  Orchestrated
    => /\ last.downloaded => last.pre.profile_id # None
       /\ ~InvalidProfileId

====
